---- MODULE Spec2Model ----
(***************************************************************************)
(* State-machine model of the SQL statement executor SQLExec of            *)
(* 5300-Echidna.  The repository holds the executor twice:                 *)
(*   - src/src/SQLExec.cpp, the Milestone 3 executor (CREATE TABLE,        *)
(*     DROP TABLE, SHOW TABLES, SHOW COLUMNS); the model calls it M3;      *)
(*   - the listing in src/README.md (lines 103-703), the Milestone 5       *)
(*     executor (adds CREATE/DROP/SHOW INDEX, INSERT, DELETE, SELECT);     *)
(*     the model calls it M5.                                              *)
(* Both are modelled; the variable build says which executable runs.       *)
(* The storage layer (DbRelation, DbIndex, Tables, Columns, Indices,       *)
(* EvalPlan) is not part of the sources; it is modelled from sections 4.2  *)
(* to 4.4 of the specification.                                            *)
(***************************************************************************)
EXTENDS Integers, Sequences, FiniteSets, Bags, TLC

VARIABLES
    build,      \* "M3" or "M5": which executor is running
    rel,        \* relation name -> sequence of stored rows (a Handle is a position)
    storage,    \* names of the relations whose physical storage exists
    idx,        \* <<table, index>> -> physical index storage
    result,     \* outcome of the last statement handed to execute
    steps,      \* number of statements executed in this session
    again       \* the last statement is the statement executed just before it

vars == <<build, rel, storage, idx, result, steps, again>>

----------------------------------------------------------------------------
(* Bounds of the model *)

MaxSteps == 4        \* statements per session

----------------------------------------------------------------------------
(* Value: tagged union (tag, n, s) *)

IntValue(n) == [tag |-> "INT", n |-> n, s |-> ""]
TextValue(s) == [tag |-> "TEXT", n |-> 0, s |-> s]
BoolValue(b) == [tag |-> "BOOLEAN", n |-> IF b THEN 1 ELSE 0, s |-> ""]

(* Names of the three schema relations *)
TablesName == "_tables"
ColumnsName == "_columns"
IndicesName == "_indices"
SchemaTables == {TablesName, ColumnsName, IndicesName}

UserTables == {"t1", "t2"}
RelNames == UserTables \cup SchemaTables
IndexNames == {"ix", "iy"}
IndexKeys == UserTables \X IndexNames

----------------------------------------------------------------------------
(* Storage contract: DbRelation *)

\* select(where): handles of the rows that equal every (column, value) pair
Matches(row, where) ==
    \A c \in DOMAIN where : c \in DOMAIN row /\ row[c] = where[c]

Select(r, where) == {h \in 1..Len(r) : Matches(r[h], where)}

SelectAll(r) == 1..Len(r)

\* del(handle) for every handle of H: the rows at H leave, the others keep their order
Del(r, H) ==
    LET F[i \in 0..Len(r)] ==
            IF i = 0 THEN <<>>
            ELSE IF i \in H THEN F[i - 1] ELSE Append(F[i - 1], r[i])
    IN F[Len(r)]

\* insert(row): the row is stored after the rows present; its handle is the new position
Insert(r, row) == Append(r, row)

\* project(handle, column_names): the named columns of the row at handle, all
\* its columns when no column is named
Project(row, names) == IF names = {} THEN row ELSE [c \in names |-> row[c]]

ProjectAll(rows, names) == [i \in 1..Len(rows) |-> Project(rows[i], names)]

\* project of a column the row does not have fails
ProjectFails(rows, names) == \E i \in 1..Len(rows) : ~(names \subseteq DOMAIN rows[i])

RECURSIVE InsertAll(_, _)
InsertAll(r, rows) ==
    IF rows = <<>> THEN r ELSE InsertAll(Insert(r, Head(rows)), Tail(rows))

Range(s) == {s[i] : i \in 1..Len(s)}

SeqToBag(s) == [x \in Range(s) |-> Cardinality({i \in 1..Len(s) : s[i] = x})]

----------------------------------------------------------------------------
(* Schema catalog: Tables / Columns / Indices *)

TableRow(t) == [table_name |-> TextValue(t)]
ColumnRow(t, c, ty) == [table_name |-> TextValue(t), column_name |-> TextValue(c), data_type |-> TextValue(ty)]

WhereTable(t) == [table_name |-> TextValue(t)]
WhereIndex(t, ix) == [table_name |-> TextValue(t), index_name |-> TextValue(ix)]

\* get_columns(table_name): _columns filtered by table_name, insertion order kept
RECURSIVE ColumnsOf(_, _)
ColumnsOf(cols, t) ==
    IF cols = <<>> THEN <<>>
    ELSE IF Matches(Head(cols), WhereTable(t))
         THEN <<Head(cols)>> \o ColumnsOf(Tail(cols), t)
         ELSE ColumnsOf(Tail(cols), t)

GetColumnNames(r, t) ==
    LET cs == ColumnsOf(r[ColumnsName], t) IN [i \in 1..Len(cs) |-> cs[i].column_name.s]

\* rows with which the catalog describes itself when it is first created
BootTables(b) ==
    IF b = "M3" THEN <<TableRow(TablesName), TableRow(ColumnsName)>>
    ELSE <<TableRow(TablesName), TableRow(ColumnsName), TableRow(IndicesName)>>

BootColumns(b) ==
    <<ColumnRow(TablesName, "table_name", "TEXT"),
      ColumnRow(ColumnsName, "table_name", "TEXT"),
      ColumnRow(ColumnsName, "column_name", "TEXT"),
      ColumnRow(ColumnsName, "data_type", "TEXT")>>
    \o (IF b = "M3" THEN <<>>
        ELSE <<ColumnRow(IndicesName, "table_name", "TEXT"),
               ColumnRow(IndicesName, "index_name", "TEXT"),
               ColumnRow(IndicesName, "column_name", "TEXT"),
               ColumnRow(IndicesName, "seq_in_index", "INT"),
               ColumnRow(IndicesName, "index_type", "TEXT"),
               ColumnRow(IndicesName, "is_unique", "BOOLEAN")>>)

BootStorage(b) ==
    IF b = "M3" THEN {TablesName, ColumnsName} ELSE SchemaTables

\* physical index storage: whether it exists, the handles it holds of rows
\* still stored (live) and how many handles it holds of rows since deleted
NoIndex == [exists |-> FALSE, live |-> {}, stale |-> 0]

----------------------------------------------------------------------------
(* Parsed statements and query results *)

NoStmt ==
    [type |-> "none", table |-> "", index |-> "", columns |-> <<>>,
     ifNotExists |-> FALSE, indexColumns |-> <<>>, indexType |-> "",
     values |-> <<>>, where |-> [conn |-> "NONE", leaves |-> <<>>],
     selectList |-> <<>>]

\* kind: "ok" a QueryResult is returned, "error" SQLExecError reaches the caller,
\* "crash" the process is lost to undefined behaviour (the statement does not complete)
Result(stmt, kind, msg, fault) ==
    [stmt |-> stmt, kind |-> kind, msg |-> msg, fault |-> fault,
     names |-> <<>>, rows |-> <<>>]

QueryResult(stmt, names, rows) ==
    [stmt |-> stmt, kind |-> "ok", msg |-> "successfully returned", fault |-> "none",
     names |-> names, rows |-> rows]

----------------------------------------------------------------------------
(* Statement inputs *)

ColumnDef(n, ty) == [name |-> n, type |-> ty]

\* the statement of one session step
Executing(stmt) ==
    /\ steps < MaxSteps
    /\ steps' = steps + 1
    /\ build' = build
    /\ again' = (stmt = result.stmt)

----------------------------------------------------------------------------
(* DbRelation::create, create_if_not_exists, drop *)

\* create(): fails if the storage exists, or when the storage engine fails
CreateFails(st, t, fault) == t \in st \/ fault = "create"

\* create_if_not_exists(): succeeds silently if the storage exists
CreateIfNotExistsFails(st, t, fault) == t \notin st /\ fault = "create"

----------------------------------------------------------------------------
(* CREATE TABLE *)

\* column_definition: INT and TEXT are supported, anything else throws
Supported(col) == col.type \in {"INT", "TEXT"}

\* number of leading columns of cols that column_definition accepts
RECURSIVE SupportedPrefix(_)
SupportedPrefix(cols) ==
    IF cols = <<>> \/ ~Supported(Head(cols)) THEN 0
    ELSE 1 + SupportedPrefix(Tail(cols))

\* the _columns rows of the first n declared columns
ColumnRows(t, cols, n) ==
    [i \in 1..n |->
        ColumnRow(t, cols[i].name, IF cols[i].type = "TEXT" THEN "TEXT" ELSE "INT")]

CreateTableUndoTablesOnly(r, tableHandle, columnHandles) ==
    [r EXCEPT ![TablesName] = Del(@, {tableHandle})]

\* README create_table, catch blocks: delete the _columns rows inserted by this
\* statement, then the _tables row
CreateTableUndo(r, tableHandle, columnHandles) ==
    LET r1 == [r EXCEPT ![ColumnsName] = Del(@, columnHandles)]
    IN [r1 EXCEPT ![TablesName] = Del(@, {tableHandle})]

CreateTable(t, cols, ifNotExists, fault, at) ==
    LET stmt == [NoStmt EXCEPT !.type = "CREATE TABLE", !.table = t,
                               !.columns = cols, !.ifNotExists = ifNotExists]
        \* update _tables schema
        r1 == [rel EXCEPT ![TablesName] = Insert(@, TableRow(t))]
        tableHandle == Len(r1[TablesName])
        \* update _columns schema: rows go in until a column is refused
        ok == SupportedPrefix(cols)
        n == IF fault = "columns.insert" /\ at - 1 < ok THEN at - 1 ELSE ok
        r2 == [r1 EXCEPT ![ColumnsName] = InsertAll(@, ColumnRows(t, cols, n))]
        columnHandles == (Len(r1[ColumnsName]) + 1)..Len(r2[ColumnsName])
        columnsFail == n < Len(cols)
        createFails == IF ifNotExists THEN CreateIfNotExistsFails(storage, t, fault)
                       ELSE CreateFails(storage, t, fault)
        why == IF fault = "columns.insert" /\ at - 1 < ok THEN "columns.insert"
               ELSE IF columnsFail THEN "column_definition"
               ELSE "create"
    IN
    /\ build = "M5"
    /\ Executing(stmt)
    /\ IF fault = "tables.insert"
       THEN /\ result' = Result(stmt, "error", "DbRelationError", "tables.insert")
            /\ UNCHANGED <<rel, storage, idx>>
       ELSE IF columnsFail \/ createFails
       THEN /\ rel' = CreateTableUndo(r2, tableHandle, columnHandles)
            /\ result' = Result(stmt, "error",
                                IF why = "column_definition" THEN "not implemented"
                                ELSE "DbRelationError", why)
            /\ UNCHANGED <<storage, idx>>
       ELSE /\ rel' = r2
            /\ storage' = storage \cup {t}
            /\ result' = Result(stmt, "ok", "created table", "none")
            /\ UNCHANGED idx

\* SQLExec.cpp create, lines 115-120
ColumnRowsM3(t, cols, n) ==
    [i \in 1..n |->
        ColumnRow(t, cols[i].name, IF cols[i].type = "INT" THEN "INT" ELSE "TEXT")]

\* SQLExec.cpp create, inner catch: delete the _tables row, then the _columns rows
CreateUndo(r, tableHandle, columnHandles) ==
    LET r1 == [r EXCEPT ![TablesName] = Del(@, {tableHandle})]
    IN [r1 EXCEPT ![ColumnsName] = Del(@, columnHandles)]

Create(t, cols, ifNotExists, fault, at) ==
    LET stmt == [NoStmt EXCEPT !.type = "CREATE TABLE", !.table = t,
                               !.columns = cols, !.ifNotExists = ifNotExists]
        r1 == [rel EXCEPT ![TablesName] = Insert(@, TableRow(t))]
        tableHandle == Len(r1[TablesName])
        n == IF fault = "columns.insert" THEN at - 1 ELSE Len(cols)
        r2 == [r1 EXCEPT ![ColumnsName] = InsertAll(@, ColumnRowsM3(t, cols, n))]
        columnHandles == (Len(r1[ColumnsName]) + 1)..Len(r2[ColumnsName])
        createFails == IF ifNotExists THEN CreateIfNotExistsFails(storage, t, fault)
                       ELSE CreateFails(storage, t, fault)
    IN
    /\ build = "M3"
    /\ Executing(stmt)
    /\ IF SupportedPrefix(cols) < Len(cols)
       THEN \* column_definition throws before anything is written
            /\ result' = Result(stmt, "error", "Column Attribute Type Not Supported",
                                "column_definition")
            /\ UNCHANGED <<rel, storage, idx>>
       ELSE IF fault = "tables.insert"
       THEN /\ result' = Result(stmt, "ok", "Failed to create table", "tables.insert")
            /\ UNCHANGED <<rel, storage, idx>>
       ELSE IF fault = "columns.insert" \/ createFails
       THEN /\ rel' = CreateUndo(r2, tableHandle, columnHandles)
            /\ result' = Result(stmt, "ok", "Failed to create table",
                                IF fault = "columns.insert" THEN fault ELSE "create")
            /\ UNCHANGED <<storage, idx>>
       ELSE /\ rel' = r2
            /\ storage' = storage \cup {t}
            /\ result' = Result(stmt, "ok", "created", "none")
            /\ UNCHANGED idx

----------------------------------------------------------------------------
(* DROP TABLE *)

\* DbRelation::drop on relation t: the stored rows go with the storage; the
\* handles that indices hold of them now refer to no row
DropStorage(r, t) == [r EXCEPT ![t] = <<>>]

Orphaned(ix, t) ==
    [k \in IndexKeys |->
        IF k[1] = t
        THEN [ix[k] EXCEPT !.live = {}, !.stale = @ + Cardinality(ix[k].live)]
        ELSE ix[k]]

\* lowest handle of a non-empty handle list: *rows->begin()
Begin(H) == CHOOSE h \in H : \A g \in H : h <= g

\* README drop_table, line 513
IsSchemaTable(t) == t \in {TablesName, ColumnsName, IndicesName}

DropTableStepsTablesFirst(r, t) ==
    LET where == WhereTable(t)
        r1 == [r EXCEPT ![TablesName] = Del(@, {Begin(Select(@, where))})]
        r2 == [r1 EXCEPT ![IndicesName] = Del(@, Select(@, where))]
        r3 == [r2 EXCEPT ![ColumnsName] = Del(@, Select(@, where))]
    IN <<r1, r2, r3, DropStorage(r3, t)>>

\* README drop_table, lines 524-542, on a registered table: the relations
\* after each of its four steps
DropTableSteps(r, t) ==
    LET where == WhereTable(t)
        \* before dropping the table, drop each index on the table
        r1 == [r EXCEPT ![IndicesName] = Del(@, Select(@, where))]
        \* remove columns
        r2 == [r1 EXCEPT ![ColumnsName] = Del(@, Select(@, where))]
        \* remove table
        r3 == DropStorage(r2, t)
        r4 == [r3 EXCEPT ![TablesName] = Del(@, {Begin(Select(@, where))})]
    IN <<r1, r2, r3, r4>>

DropTable(t, fault) ==
    LET stmt == [NoStmt EXCEPT !.type = "DROP TABLE", !.table = t]
        where == WhereTable(t)
        r2 == DropTableSteps(rel, t)[2]
        r4 == DropTableSteps(rel, t)[4]
    IN
    /\ build = "M5"
    /\ Executing(stmt)
    /\ IF IsSchemaTable(t)
       THEN /\ result' = Result(stmt, "error", "Cannot drop a schema table!", "none")
            /\ UNCHANGED <<rel, storage, idx>>
       ELSE IF Select(rel[TablesName], where) = {}
       THEN /\ result' = Result(stmt, "error", "attempting to drop non-existent table", "none")
            /\ UNCHANGED <<rel, storage, idx>>
       ELSE IF fault = "drop"
       THEN /\ rel' = r2
            /\ result' = Result(stmt, "error", "DbRelationError", "drop")
            /\ UNCHANGED <<storage, idx>>
       ELSE /\ rel' = r4
            /\ storage' = storage \ {t}
            /\ idx' = Orphaned(idx, t)
            /\ result' = Result(stmt, "ok", "dropped table", "none")

\* SQLExec.cpp drop, line 146
IsSchemaTableM3(t) == t \in {TablesName, ColumnsName}

\* SQLExec.cpp drop, lines 170-181: the handler walks rows after delete rows
\* (line 158) has freed it.  What the freed list yields is undefined: any part
\* of the deleted _columns rows may be projected and inserted again, or the
\* process is lost.
DropUndo(r, deleted, restored) ==
    [r EXCEPT ![ColumnsName] = InsertAll(@, Del(deleted, SelectAll(deleted) \ restored))]

\* SQLExec.cpp drop, lines 153-166: the relations after the _columns rows
\* are deleted, after the table is dropped and, when _tables has a row of
\* the table, after that row is deleted
DropSteps(r, t) ==
    LET where == WhereTable(t)
        \* delete entries from _columns
        r1 == [r EXCEPT ![ColumnsName] = Del(@, Select(@, where))]
        \* drop the actual table
        r2 == DropStorage(r1, t)
        \* remove entry from _tables
        found == Select(r2[TablesName], where)
    IN IF found = {} THEN <<r1, r2>>
       ELSE <<r1, r2, [r2 EXCEPT ![TablesName] = Del(@, {Begin(found)})]>>

Drop(t, fault, ub, restored) ==
    LET stmt == [NoStmt EXCEPT !.type = "DROP TABLE", !.table = t]
        where == WhereTable(t)
        rows == Select(rel[ColumnsName], where)
        deleted == Del(rel[ColumnsName], SelectAll(rel[ColumnsName]) \ rows)
        r1 == DropSteps(rel, t)[1]
        r2 == DropSteps(rel, t)[2]
        found == Select(r2[TablesName], where)
    IN
    /\ build = "M3"
    /\ Executing(stmt)
    /\ IF IsSchemaTableM3(t)
       THEN /\ result' = Result(stmt, "error", "Cannot drop a schema table!", "none")
            /\ UNCHANGED <<rel, storage, idx>>
       ELSE IF fault = "drop"
       THEN /\ restored \subseteq SelectAll(deleted)
            /\ rel' = DropUndo(r1, deleted, restored)
            /\ result' = Result(stmt, IF ub = "crash" THEN "crash" ELSE "error",
                                "DbRelationError", "drop")
            /\ UNCHANGED <<storage, idx>>
       ELSE IF found = {}
       THEN \* *rows->begin() of an empty list: undefined behaviour
            /\ rel' = r2
            /\ storage' = storage \ {t}
            /\ result' = Result(stmt, ub, "DbRelationError", "begin")
            /\ UNCHANGED idx
       ELSE /\ rel' = DropSteps(rel, t)[3]
            /\ storage' = storage \ {t}
            /\ result' = Result(stmt, "ok", "dropped", "none")
            /\ UNCHANGED idx

\* what the caller sees of undefined behaviour: the process is lost, or the
\* storage engine refuses the garbage with DbRelationError
UBOutcomes == {"error", "crash"}

----------------------------------------------------------------------------
(* SHOW TABLES *)

\* the rows at the handles of H, in handle order
RowsAt(r, H) == Del(r, SelectAll(r) \ H)

\* README show_tables, line 622
Hidden(t) == t \in {TablesName, ColumnsName, IndicesName}

ShowTablesRows(r) ==
    LET cn == GetColumnNames(r, TablesName)
        projected == ProjectAll(r[TablesName], {cn[i] : i \in 1..Len(cn)})
    IN RowsAt(projected, {h \in SelectAll(projected) : ~Hidden(projected[h].table_name.s)})

\* SQLExec.cpp show_tables, lines 203-204
HiddenM3(t) == t \in {TablesName, ColumnsName}

\* the rows are projected on a column list that is still empty
ShowTablesRowsM3(r) ==
    LET projected == ProjectAll(r[TablesName], {})
    IN RowsAt(projected, {h \in SelectAll(projected) : ~HiddenM3(projected[h].table_name.s)})

ShowTables ==
    LET stmt == [NoStmt EXCEPT !.type = "SHOW TABLES"]
    IN
    /\ Executing(stmt)
    /\ result' = QueryResult(stmt, GetColumnNames(rel, TablesName),
                             IF build = "M3" THEN ShowTablesRowsM3(rel) ELSE ShowTablesRows(rel))
    /\ UNCHANGED <<rel, storage, idx>>

----------------------------------------------------------------------------
(* CREATE INDEX, DROP INDEX, SHOW INDEX *)

IndexRow(t, ix, c, seq, ty) ==
    [table_name |-> TextValue(t), index_name |-> TextValue(ix),
     column_name |-> TextValue(c), seq_in_index |-> IntValue(seq),
     index_type |-> TextValue(ty), is_unique |-> BoolValue(ty = "BTREE")]

IndexRowsNoIncrement(t, ix, cols, ty, n) == [i \in 1..n |-> IndexRow(t, ix, cols[i], 1, ty)]

\* the _indices rows of the first n index columns
IndexRows(t, ix, cols, ty, n) == [i \in 1..n |-> IndexRow(t, ix, cols[i], i, ty)]

DropIndexFromAllOfTable(r, ixs, t, ix, fault) ==
    [rel |-> [r EXCEPT ![IndicesName] = Del(@, Select(@, WhereTable(t)))],
     idx |-> [ixs EXCEPT ![<<t, ix>>] = NoIndex],
     kind |-> IF Select(r[IndicesName], WhereIndex(t, ix)) = {} \/ fault = "index.drop"
              THEN "error" ELSE "ok",
     msg |-> "dropped index"]

\* README drop_index as a function of the state it starts in:
\* the state it leaves and how it ends
DropIndexFrom(r, ixs, t, ix, fault) ==
    LET dropped == [ixs EXCEPT ![<<t, ix>>] = NoIndex]
        selected == Select(r[IndicesName], WhereIndex(t, ix))
    IN
    IF fault = "index.drop"
    THEN [rel |-> r, idx |-> ixs, kind |-> "error", msg |-> "index.drop failed"]
    ELSE IF selected = {}
    THEN [rel |-> r, idx |-> dropped, kind |-> "error",
          msg |-> "attempting to drop non-existent index"]
    ELSE [rel |-> [r EXCEPT ![IndicesName] = Del(@, selected)], idx |-> dropped,
          kind |-> "ok", msg |-> "dropped index"]

DropIndex(t, ix, fault) ==
    LET stmt == [NoStmt EXCEPT !.type = "DROP INDEX", !.table = t, !.index = ix]
        out == DropIndexFrom(rel, idx, t, ix, fault)
    IN
    /\ build = "M5"
    /\ Executing(stmt)
    /\ rel' = out.rel
    /\ idx' = out.idx
    /\ result' = Result(stmt, out.kind, out.msg, fault)
    /\ UNCHANGED storage

\* DbIndex::create: fails if the index storage exists, or when the engine fails
IndexCreateFails(ixs, t, ix, fault) ==
    ixs[<<t, ix>>].exists \/ fault \in {"index.create", "index.drop"}

CreateIndex(t, ix, cols, ty, fault, at) ==
    LET stmt == [NoStmt EXCEPT !.type = "CREATE INDEX", !.table = t, !.index = ix,
                               !.indexColumns = cols, !.indexType = ty]
        cn == GetColumnNames(rel, t)
        \* insert a row for each column in index key into _indices
        n == IF fault = "indices.insert" THEN at - 1 ELSE Len(cols)
        r1 == [rel EXCEPT ![IndicesName] = InsertAll(@, IndexRows(t, ix, cols, ty, n))]
        \* the handler of a failed index.create() runs DROP INDEX
        undo == DropIndexFrom(r1, idx, t, ix, IF fault = "index.drop" THEN fault ELSE "none")
    IN
    /\ build = "M5"
    /\ Executing(stmt)
    /\ IF \E i \in 1..Len(cols) : cols[i] \notin Range(cn)
       THEN /\ result' = Result(stmt, "error", "no such column", "none")
            /\ UNCHANGED <<rel, storage, idx>>
       ELSE IF fault = "indices.insert"
       THEN /\ rel' = r1
            /\ result' = Result(stmt, "error", "DbRelationError", fault)
            /\ UNCHANGED <<storage, idx>>
       ELSE IF IndexCreateFails(idx, t, ix, fault)
       THEN /\ rel' = undo.rel
            /\ idx' = undo.idx
            /\ result' = Result(stmt, "error",
                                IF undo.kind = "ok" THEN "index.create failed" ELSE undo.msg,
                                IF fault = "none" THEN "index.create" ELSE fault)
            /\ UNCHANGED storage
       ELSE /\ rel' = r1
            /\ idx' = [idx EXCEPT ![<<t, ix>>] = [exists |-> TRUE, live |-> {}, stale |-> 0]]
            /\ result' = Result(stmt, "ok", "created index", "none")
            /\ UNCHANGED storage

ShowIndex(t) ==
    LET stmt == [NoStmt EXCEPT !.type = "SHOW INDEX", !.table = t]
    IN
    /\ build = "M5"
    /\ Executing(stmt)
    /\ result' = QueryResult(stmt, GetColumnNames(rel, IndicesName),
                             RowsAt(rel[IndicesName], Select(rel[IndicesName], WhereTable(t))))
    /\ UNCHANGED <<rel, storage, idx>>

----------------------------------------------------------------------------
(* INSERT, DELETE, SELECT *)

RegisteredAlways(r, t) == TRUE

\* check table exists
Registered(r, t) == Select(r[TablesName], WhereTable(t)) # {}

\* a literal the SQL parser accepts and the executor has no case for
NullValue == [tag |-> "NULL", n |-> 0, s |-> ""]

IsLiteral(v) == v.tag \in {"INT", "TEXT"}

\* get_index_names(table_name): the index names _indices records for the table
GetIndexNames(r, t) ==
    {r[IndicesName][h].index_name.s : h \in Select(r[IndicesName], WhereTable(t))}

\* positional mapping of the value list onto the column names; of two values
\* under one column name the later one stays
BuildRow(cn, values, n) ==
    [c \in {cn[i] : i \in 1..n} |->
        values[CHOOSE i \in 1..n : cn[i] = c /\ \A j \in 1..n : cn[j] = c => j <= i]]

IndexInsertNowhere(ixs, t, names, handle) == ixs

\* README insert, lines 234-238: the handles held by the indices after the
\* handle of the stored row is inserted into each index of names on table t
IndexInsert(ixs, t, names, handle) ==
    [k \in IndexKeys |->
        IF k[1] = t /\ k[2] \in names THEN [ixs[k] EXCEPT !.live = @ \cup {handle}]
        ELSE ixs[k]]

\* handles held by the indices of table t after the rows at H left t: a held
\* handle of a deleted row stays in the index and refers to no row
IndexAfterDel(ixs, t, H) ==
    [k \in IndexKeys |->
        IF k[1] = t
        THEN [ixs[k] EXCEPT
                !.live = {h - Cardinality({g \in H : g < h}) : h \in ixs[k].live \ H},
                !.stale = @ + Cardinality(ixs[k].live \cap H)]
        ELSE ixs[k]]

InsertInto(t, values, fault, ub) ==
    LET stmt == [NoStmt EXCEPT !.type = "INSERT", !.table = t, !.values = values]
        cn == GetColumnNames(rel, t)
        values_n == Len(values)
        \* cn[i] past the end of the column names is undefined behaviour
        n == IF values_n > Len(cn) THEN Len(cn) ELSE values_n
        overrun == values_n > Len(cn)
        badLiteral == \E i \in 1..n : ~IsLiteral(values[i])
        row == BuildRow(cn, values, n)
        incomplete == Range(cn) # DOMAIN row
        insertion == Len(rel[t]) + 1
        indices == GetIndexNames(rel, t)
        r1 == [rel EXCEPT ![t] = Insert(@, row)]
        noIndex == \E ix \in indices : <<t, ix>> \notin IndexKeys \/ ~idx[<<t, ix>>].exists
    IN
    /\ build = "M5"
    /\ Executing(stmt)
    /\ IF ~Registered(rel, t)
       THEN /\ result' = Result(stmt, "error", "attempting to insert into non-existent table", "none")
            /\ UNCHANGED <<rel, storage, idx>>
       ELSE IF badLiteral
       THEN /\ result' = Result(stmt, "error", "column attribute unrecognized", "none")
            /\ UNCHANGED <<rel, storage, idx>>
       ELSE IF overrun /\ ub = "crash"
       THEN /\ result' = Result(stmt, "crash", "", "overrun")
            /\ UNCHANGED <<rel, storage, idx>>
       ELSE IF t \notin storage \/ incomplete \/ fault = "insert"
       THEN /\ result' = Result(stmt, "error", "DbRelationError",
                                IF t \notin storage THEN "no storage"
                                ELSE IF incomplete THEN "incomplete row" ELSE "insert")
            /\ UNCHANGED <<rel, storage, idx>>
       ELSE IF indices # {} /\ (noIndex \/ fault = "index.insert")
       THEN /\ rel' = r1
            /\ result' = Result(stmt, "error", "DbRelationError", "index.insert")
            /\ UNCHANGED <<storage, idx>>
       ELSE /\ rel' = r1
            /\ idx' = IndexInsert(idx, t, indices, insertion)
            /\ result' = Result(stmt, "ok", "successfully inserted 1 row", "none")
            /\ UNCHANGED storage

\* WHERE clause: the leaves of the expression tree from left to right (the
\* order in which get_where_conjunction visits them) and the operator of the
\* inner nodes
Leaf(op, col, lit) == [op |-> op, col |-> col, lit |-> lit]
NoWhere == [conn |-> "NONE", leaves |-> <<>>]
Where(conn, leaves) == [conn |-> conn, leaves |-> leaves]

\* get_where_conjunction: an AND node visits both sides, an = leaf with an
\* integer or string literal is entered under its column name, an = leaf with
\* another literal throws, a node of any other operator does nothing
RECURSIVE Conjunction(_, _)
Conjunction(leaves, acc) ==
    IF leaves = <<>> THEN acc
    ELSE LET l == Head(leaves) IN
         IF l.op = "="
         THEN Conjunction(Tail(leaves),
                          [c \in DOMAIN acc \cup {l.col} |-> IF c = l.col THEN l.lit ELSE acc[c]])
         ELSE Conjunction(Tail(leaves), acc)

GetWhereConjunction(where) ==
    IF where.conn = "AND" THEN Conjunction(where.leaves, <<>>) ELSE <<>>

WhereThrows(where) ==
    /\ where.conn = "AND"
    /\ \E i \in 1..Len(where.leaves) :
            where.leaves[i].op = "=" /\ ~IsLiteral(where.leaves[i].lit)

\* EvalPlan: TableScan, wrapped in Select when the statement has a WHERE clause
Pipeline(r, t, where) ==
    IF where.conn = "NONE" THEN SelectAll(r[t]) ELSE Select(r[t], GetWhereConjunction(where))

DeleteFrom(t, where) ==
    LET stmt == [NoStmt EXCEPT !.type = "DELETE", !.table = t, !.where = where]
        handles == Pipeline(rel, t, where)
    IN
    /\ build = "M5"
    /\ Executing(stmt)
    /\ IF ~Registered(rel, t)
       THEN /\ result' = Result(stmt, "error", "attempting to delete from non-existent table", "none")
            /\ UNCHANGED <<rel, storage, idx>>
       ELSE IF WhereThrows(where)
       THEN /\ result' = Result(stmt, "error", "unrecognized expression", "none")
            /\ UNCHANGED <<rel, storage, idx>>
       ELSE IF t \notin storage
       THEN /\ result' = Result(stmt, "error", "DbRelationError", "no storage")
            /\ UNCHANGED <<rel, storage, idx>>
       ELSE /\ rel' = [rel EXCEPT ![t] = Del(@, handles)]
            /\ idx' = IndexAfterDel(idx, t, handles)
            /\ result' = [Result(stmt, "ok", "successfully deleted", "none")
                            EXCEPT !.rows = RowsAt(rel[t], handles)]
            /\ UNCHANGED storage

SelectColumnsAlternating(list, cn) == IF steps % 2 = 0 THEN cn ELSE <<>>

\* the projected column names: * expands to the column names of the table
RECURSIVE SelectColumns(_, _)
SelectColumns(list, cn) ==
    IF list = <<>> THEN <<>>
    ELSE (IF Head(list) = "*" THEN cn ELSE <<Head(list)>>) \o SelectColumns(Tail(list), cn)

SelectFrom(t, list, where) ==
    LET stmt == [NoStmt EXCEPT !.type = "SELECT", !.table = t, !.selectList = list,
                               !.where = where]
        cn == SelectColumns(list, GetColumnNames(rel, t))
        rows == RowsAt(rel[t], Pipeline(rel, t, where))
    IN
    /\ build = "M5"
    /\ Executing(stmt)
    /\ UNCHANGED <<rel, storage, idx>>
    /\ IF ~Registered(rel, t)
       THEN result' = Result(stmt, "error", "attempting to select from non-existent table", "none")
       ELSE IF WhereThrows(where)
       THEN result' = Result(stmt, "error", "unrecognized expression", "none")
       ELSE IF t \notin storage
       THEN result' = Result(stmt, "error", "DbRelationError", "no storage")
       ELSE IF ProjectFails(rows, Range(cn))
       THEN result' = Result(stmt, "error", "DbRelationError", "project")
       ELSE result' = QueryResult(stmt, cn, ProjectAll(rows, Range(cn)))

----------------------------------------------------------------------------
(* SHOW COLUMNS *)

ShowColumnNames == <<"table_name", "column_name", "data_type">>

\* show_columns: with a table, the _columns rows of the table; without one the
\* rows are taken from _tables and projected on the three column names
ShowColumns(t) ==
    LET stmt == [NoStmt EXCEPT !.type = "SHOW COLUMNS", !.table = t]
        rows == IF t # ""
                THEN RowsAt(rel[ColumnsName], Select(rel[ColumnsName], WhereTable(t)))
                ELSE rel[TablesName]
    IN
    /\ Executing(stmt)
    /\ UNCHANGED <<rel, storage, idx>>
    /\ IF ProjectFails(rows, Range(ShowColumnNames))
       THEN result' = Result(stmt, "error", "DbRelationError", "project")
       ELSE result' = QueryResult(stmt, ShowColumnNames,
                                  ProjectAll(rows, Range(ShowColumnNames)))

----------------------------------------------------------------------------
(* Statements SQLExec.cpp has no handler for *)

\* execute, create, drop and show of SQLExec.cpp given a Milestone 5 statement
ExecuteOther(type) ==
    LET stmt == [NoStmt EXCEPT !.type = type]
    IN
    /\ build = "M3"
    /\ Executing(stmt)
    /\ UNCHANGED <<rel, storage, idx>>
    /\ result' =
        IF type \in {"INSERT", "DELETE", "SELECT"}
        THEN Result(stmt, "ok", "not implemented", "none")
        ELSE IF type = "DROP INDEX"
        THEN Result(stmt, "error", "unrecognized DROP type", "none")
        ELSE IF type = "SHOW INDEX"
        THEN Result(stmt, "error", "Operation Not Allowed", "none")
        ELSE \* CREATE INDEX: create walks statement->columns, which is null
             Result(stmt, "crash", "", "null columns")

----------------------------------------------------------------------------
(* The statements of a session, each with the storage fault it meets *)

\* column lists of the CREATE TABLE statements; DOUBLE is a type the parser
\* accepts and the executor does not support
ValidColumns == <<ColumnDef("x", "INT"), ColumnDef("y", "TEXT")>>
DoubleColumns == <<ColumnDef("x", "INT"), ColumnDef("y", "DOUBLE")>>

\* <<table, columns, IF NOT EXISTS, fault, position of the failing _columns insert>>
CreateCases ==
    {<<"t1", ValidColumns, FALSE, "none", 1>>,
     <<"t1", ValidColumns, TRUE, "none", 1>>,
     <<"t1", ValidColumns, FALSE, "tables.insert", 1>>,
     <<"t1", ValidColumns, FALSE, "columns.insert", 2>>,
     <<"t1", ValidColumns, FALSE, "create", 1>>,
     <<"t1", ValidColumns, TRUE, "create", 1>>,
     <<"t1", DoubleColumns, FALSE, "none", 1>>,
     <<"t2", ValidColumns, FALSE, "none", 1>>,
     <<IndicesName, ValidColumns, FALSE, "none", 1>>,
     <<IndicesName, ValidColumns, TRUE, "none", 1>>}

\* <<table, fault>>
DropTableCases ==
    {<<t, "none">> : t \in RelNames} \cup {<<"t1", "drop">>}

\* <<table, fault, outcome of undefined behaviour, deleted rows inserted again>>
DropCases ==
    {<<t, "none", ub, {}>> : t \in RelNames, ub \in UBOutcomes}
    \cup {<<"t1", "drop", "crash", {}>>}
    \cup {<<"t1", "drop", "error", S>> : S \in SUBSET (1..2)}

\* <<table, index, index columns, index type, fault, position of the failing _indices insert>>
CreateIndexCases ==
    {<<"t1", "ix", <<"x", "y">>, "BTREE", "none", 1>>,
     <<"t1", "ix", <<"x">>, "HASH", "none", 1>>,
     <<"t1", "ix", <<"x", "x">>, "BTREE", "none", 1>>,
     <<"t1", "ix", <<"x", "z">>, "BTREE", "none", 1>>,
     <<"t1", "ix", <<"x", "y">>, "BTREE", "indices.insert", 2>>,
     <<"t1", "ix", <<"x", "y">>, "BTREE", "index.create", 1>>,
     <<"t1", "ix", <<"x", "y">>, "BTREE", "index.drop", 1>>,
     <<"t2", "ix", <<"x">>, "HASH", "none", 1>>,
     <<"t1", "iy", <<"y">>, "HASH", "none", 1>>}

\* <<table, index, fault>>
DropIndexCases ==
    {<<"t1", "ix", "none">>, <<"t1", "ix", "index.drop">>, <<"t2", "ix", "none">>}

\* <<table, values, fault, outcome of undefined behaviour>>
InsertCases ==
    {<<"t1", <<IntValue(1), TextValue("a")>>, "none", "ok">>,
     <<"t1", <<IntValue(1), TextValue("a")>>, "insert", "ok">>,
     <<"t1", <<IntValue(1), TextValue("a")>>, "index.insert", "ok">>,
     <<"t1", <<IntValue(2), TextValue("a")>>, "none", "ok">>,
     <<"t1", <<IntValue(1)>>, "none", "ok">>,
     <<"t1", <<TextValue("a"), IntValue(1)>>, "none", "ok">>,
     <<"t1", <<IntValue(1), TextValue("a"), IntValue(2)>>, "none", "ok">>,
     <<"t1", <<IntValue(1), TextValue("a"), IntValue(2)>>, "none", "crash">>,
     <<"t1", <<IntValue(1), NullValue>>, "none", "ok">>,
     <<"t2", <<IntValue(1), TextValue("a")>>, "none", "ok">>,
     <<TablesName, <<TextValue("t1")>>, "none", "ok">>,
     <<ColumnsName, <<TextValue("t1"), TextValue("x"), TextValue("INT")>>, "none", "ok">>}

XIs(n) == Leaf("=", "x", IntValue(n))

Wheres ==
    {NoWhere,
     Where("AND", <<XIs(1)>>),
     Where("AND", <<XIs(1), Leaf("=", "y", TextValue("a"))>>),
     Where("AND", <<XIs(1), XIs(2)>>),
     Where("AND", <<Leaf("<", "x", IntValue(2))>>),
     Where("OR", <<XIs(1), XIs(2)>>),
     Where("AND", <<Leaf("=", "x", NullValue)>>)}

OfTable(t) == Where("AND", <<Leaf("=", "table_name", TextValue(t))>>)

\* <<table, where>>
DeleteCases ==
    {<<"t1", w>> : w \in Wheres}
    \cup {<<"t2", NoWhere>>, <<TablesName, OfTable("t1")>>, <<ColumnsName, OfTable("t1")>>}

\* <<table, select list, where>>
SelectCases ==
    {<<"t1", <<"*">>, NoWhere>>,
     <<"t1", <<"*">>, Where("AND", <<XIs(1)>>)>>,
     <<"t1", <<"*">>, Where("AND", <<Leaf("<", "x", IntValue(2))>>)>>,
     <<"t1", <<"y">>, NoWhere>>,
     <<"t2", <<"*">>, NoWhere>>,
     <<TablesName, <<"*">>, NoWhere>>}

OtherTypes == {"INSERT", "DELETE", "SELECT", "CREATE INDEX", "DROP INDEX", "SHOW INDEX"}

Init ==
    /\ build \in {"M3", "M5"}
    /\ rel = [n \in RelNames |->
                IF n = TablesName THEN BootTables(build)
                ELSE IF n = ColumnsName THEN BootColumns(build)
                ELSE <<>>]
    /\ storage = BootStorage(build)
    /\ idx = [k \in IndexKeys |-> NoIndex]
    /\ result = Result(NoStmt, "ok", "", "none")
    /\ steps = 0
    /\ again = FALSE

Next ==
    \/ \E c \in CreateCases : CreateTable(c[1], c[2], c[3], c[4], c[5])
    \/ \E c \in CreateCases : Create(c[1], c[2], c[3], c[4], c[5])
    \/ \E c \in DropTableCases : DropTable(c[1], c[2])
    \/ \E c \in DropCases : Drop(c[1], c[2], c[3], c[4])
    \/ \E c \in CreateIndexCases : CreateIndex(c[1], c[2], c[3], c[4], c[5], c[6])
    \/ \E c \in DropIndexCases : DropIndex(c[1], c[2], c[3])
    \/ \E t \in UserTables : ShowIndex(t)
    \/ ShowTables
    \/ \E t \in {"", "t1", TablesName} : ShowColumns(t)
    \/ \E c \in InsertCases : InsertInto(c[1], c[2], c[3], c[4])
    \/ \E c \in DeleteCases : DeleteFrom(c[1], c[2])
    \/ \E c \in SelectCases : SelectFrom(c[1], c[2], c[3])
    \/ \E ty \in OtherTypes : ExecuteOther(ty)

Spec == Init /\ [][Next]_vars

----------------------------------------------------------------------------
(* Properties *)

tables == rel[TablesName]
columns == rel[ColumnsName]
indices == rel[IndicesName]

TableNamesIn(r) == {r[h].table_name.s : h \in 1..Len(r)}

\* the step executes a statement of the given types
Executes(types) == steps' = steps + 1 /\ result'.stmt.type \in types

SameRows(r, q) == SeqToBag(r) = SeqToBag(q)

CatalogRowsKept ==
    /\ SameRows(tables', tables)
    /\ SameRows(columns', columns)
    /\ SameRows(indices', indices)

NothingChanged == rel' = rel /\ storage' = storage /\ idx' = idx

\* C1: after every completed statement every table_name of a row of _columns
\* or of _indices is the table_name of a row of _tables
C1_NoOrphanedMetadata ==
    result.kind # "crash" =>
        (TableNamesIn(columns) \cup TableNamesIn(indices)) \subseteq TableNamesIn(tables)

\* the CREATE TABLE of res failed after its _tables row was inserted
CreateTableFailed(res) ==
    /\ res.stmt.type = "CREATE TABLE"
    /\ res.kind = "error" \/ res.msg = "Failed to create table"
    /\ \/ res.fault \in {"columns.insert", "create"}
       \/ build = "M5" /\ res.fault = "column_definition"

\* C2: a CREATE TABLE that fails after its _tables row was inserted leaves
\* _tables and _columns with exactly the rows they held before the statement
C2_CreateTableRollback ==
    [][(Executes({"CREATE TABLE"}) /\ CreateTableFailed(result'))
        => (SameRows(tables', tables) /\ SameRows(columns', columns))]_vars

\* a CREATE TABLE t1 failed in create() while t1 was registered with its columns
C2_Witness ==
    /\ CreateTableFailed(result)
    /\ result.fault = "create"
    /\ result.stmt.table \in TableNamesIn(tables)
    /\ result.stmt.table \in TableNamesIn(columns)

\* _tables has a row of t and _columns has the rows of the declared columns
FullyCatalogued(t) ==
    /\ t \in TableNamesIn(tables)
    /\ \A i \in 1..Len(ValidColumns) :
            ColumnRow(t, ValidColumns[i].name, ValidColumns[i].type) \in Range(columns)

\* C3: after every completed statement, for every non-system table name,
\* physical storage exists if and only if _tables has a row for it and
\* _columns has the rows of its declared columns
C3_StorageIffCatalog ==
    result.kind # "crash" =>
        \A t \in UserTables : (t \in storage) <=> FullyCatalogued(t)

\* the rows of r whose table_name is not t
RowsNotOf(r, t) == Del(r, Select(r, WhereTable(t)))

\* C4: after a successful DROP TABLE t no row of _tables, _columns or _indices
\* has table_name t, and the catalog rows of other table names are unchanged
C4_DropTableRemovesCatalogRows ==
    [][(Executes({"DROP TABLE"}) /\ result'.kind = "ok")
        => LET t == result'.stmt.table IN
           /\ t \notin TableNamesIn(tables') \cup TableNamesIn(columns') \cup TableNamesIn(indices')
           /\ \A n \in SchemaTables : RowsNotOf(rel'[n], t) = RowsNotOf(rel[n], t)]_vars

\* C5: DROP TABLE of _tables, _columns or _indices always fails and changes
\* neither the catalog relations nor any physical storage
C5_ProtectedDropFails ==
    [][(Executes({"DROP TABLE"}) /\ result'.stmt.table \in SchemaTables)
        => (result'.kind = "error" /\ NothingChanged)]_vars

\* C6: DROP TABLE of a name with no row in _tables fails with an error and
\* changes neither the catalog relations nor any physical storage
C6_DropUnregisteredFails ==
    [][(Executes({"DROP TABLE"}) /\ result'.stmt.table \notin TableNamesIn(tables))
        => (result'.kind = "error" /\ NothingChanged)]_vars

\* C7: a DROP TABLE, DROP INDEX, INSERT, DELETE or SELECT that fails leaves
\* _tables, _columns and _indices with exactly their rows of before the statement
C7_FailedStatementKeepsCatalog ==
    [][(Executes({"DROP TABLE", "DROP INDEX", "INSERT", "DELETE", "SELECT"})
          /\ result'.kind = "error")
        => CatalogRowsKept]_vars

\* C8: SHOW TABLES returns exactly the rows of _tables whose table_name is
\* none of _tables, _columns, _indices
C8_ShowTablesRows ==
    (result.stmt.type = "SHOW TABLES" /\ result.kind = "ok") =>
        result.rows = SelectSeq(tables, LAMBDA row : row.table_name.s \notin SchemaTables)

\* the _indices rows CREATE INDEX is to add for the statement
C9_Expected(stmt) ==
    [i \in 1..Len(stmt.indexColumns) |->
        [table_name |-> TextValue(stmt.table), index_name |-> TextValue(stmt.index),
         column_name |-> TextValue(stmt.indexColumns[i]), seq_in_index |-> IntValue(i),
         index_type |-> TextValue(stmt.indexType),
         is_unique |-> BoolValue(stmt.indexType = "BTREE")]]

\* C9: a successful CREATE INDEX ix ON t (c1..ck) adds to _indices exactly k
\* rows of (t, ix), the row of ci with seq_in_index i, all with the index type
\* of the statement and is_unique true exactly for BTREE; SHOW INDEX FROM t
\* returns exactly the _indices rows of table_name t
C9_CreateIndexRows ==
    [][/\ (Executes({"CREATE INDEX"}) /\ result'.kind = "ok")
            => indices' = indices \o C9_Expected(result'.stmt)
       /\ (Executes({"SHOW INDEX"}) /\ result'.kind = "ok")
            => result'.rows =
                 SelectSeq(indices, LAMBDA row : row.table_name.s = result'.stmt.table)]_vars

\* SHOW INDEX returned the two rows of an index on two columns
C9_Witness ==
    /\ result.stmt.type = "SHOW INDEX"
    /\ result.kind = "ok"
    /\ Len(result.rows) = 2
    /\ result.rows[2].seq_in_index = IntValue(2)

\* C10: CREATE INDEX naming a column that is not in the schema of the table,
\* and every CREATE INDEX on a table with no row in _tables, fails with
\* "no such column" and writes neither _indices nor a physical index
C10_CreateIndexNoSuchColumn ==
    [][(/\ Executes({"CREATE INDEX"})
        /\ build = "M5"
        /\ LET t == result'.stmt.table
               cols == result'.stmt.indexColumns
           IN \/ \E i \in 1..Len(cols) : cols[i] \notin Range(GetColumnNames(rel, t))
              \/ t \notin TableNamesIn(tables))
        => (result'.kind = "error" /\ result'.msg = "no such column" /\ NothingChanged)]_vars

\* number of rows of r equal to row
Copies(r, row) == Cardinality({h \in 1..Len(r) : r[h] = row})

\* C11: when index.create() of a CREATE INDEX fails, _indices ends with none
\* of the rows the statement inserted and the caller gets the creation
\* failure, also when the index drop of the compensating DROP INDEX fails
C11_CreateIndexCompensation ==
    [][(Executes({"CREATE INDEX"}) /\ result'.fault \in {"index.create", "index.drop"})
        => /\ \A row \in Range(C9_Expected(result'.stmt)) :
                    Copies(indices', row) <= Copies(indices, row)
           /\ result'.kind = "error"
           /\ result'.msg = "index.create failed"]_vars

\* the rows of _indices of index ix on table t
Group(t, ix) == RowsAt(indices, Select(indices, WhereIndex(t, ix)))

\* C12: after every completed statement, in each (table_name, index_name)
\* group of _indices the seq_in_index values are exactly 1..k without gap or
\* repeat, and index_type and is_unique are the same on every row
C12_IndexGroupsWellFormed ==
    result.kind # "crash" =>
        \A k \in IndexKeys :
            LET g == Group(k[1], k[2]) IN
            /\ \A i \in 1..Len(g) : \E h \in 1..Len(g) : g[h].seq_in_index = IntValue(i)
            /\ \A h \in 1..Len(g) :
                    /\ g[h].index_type = g[1].index_type
                    /\ g[h].is_unique = g[1].is_unique

\* C13: INSERT INTO a table with no row in _tables fails with an error and
\* changes no catalog relation, no stored row and no index
C13_InsertUnregisteredFails ==
    [][(/\ Executes({"INSERT"})
        /\ build = "M5"
        /\ result'.stmt.table \notin TableNamesIn(tables))
        => (result'.kind = "error" /\ NothingChanged)]_vars

\* an INSERT INTO t1 was refused while the storage of t1 existed and _tables
\* had no row of t1
C13_Witness ==
    /\ result.stmt.type = "INSERT"
    /\ result.kind = "error"
    /\ result.msg = "attempting to insert into non-existent table"
    /\ result.stmt.table \in storage
    /\ result.stmt.table \notin TableNamesIn(tables)

\* the row an INSERT of the value list stores in a table declared with the
\* columns of ValidColumns: the i-th value under the i-th declared column
DeclaredRow(values) ==
    LET n == IF Len(values) < Len(ValidColumns) THEN Len(values) ELSE Len(ValidColumns)
    IN [c \in {ValidColumns[i].name : i \in 1..n} |->
            values[CHOOSE i \in 1..n : ValidColumns[i].name = c]]

\* C14: a successful INSERT INTO t adds to t one row with the i-th value under
\* the i-th declared column, a successful DELETE FROM t only removes rows of t,
\* and SELECT * FROM t returns exactly the rows t then stores
C14_SelectReturnsStoredRows ==
    [][LET t == result'.stmt.table IN
       (build = "M5" /\ t \in UserTables /\ result'.kind = "ok") =>
           /\ Executes({"INSERT"}) => rel'[t] = Append(rel[t], DeclaredRow(result'.stmt.values))
           /\ Executes({"DELETE"}) => \E H \in SUBSET SelectAll(rel[t]) : rel'[t] = Del(rel[t], H)
           /\ (Executes({"SELECT"}) /\ result'.stmt.selectList = <<"*">>
                    /\ result'.stmt.where = NoWhere)
                => result'.rows = rel[t]]_vars

\* the WHERE clause is a conjunction of column = integer-or-string literal
PlainConjunction(where) ==
    /\ where.conn \in {"NONE", "AND"}
    /\ \A i \in 1..Len(where.leaves) :
            where.leaves[i].op = "=" /\ IsLiteral(where.leaves[i].lit)

\* the row satisfies every equality of the WHERE clause
Satisfies(row, where) ==
    \A i \in 1..Len(where.leaves) :
        LET l == where.leaves[i] IN l.col \in DOMAIN row /\ row[l.col] = l.lit

\* C15: DELETE FROM t WHERE p, p a conjunction of column = literal equalities,
\* removes exactly the rows of t that satisfy every equality of p and leaves
\* the other rows; without WHERE it removes every row
C15_DeleteRemovesMatchingRows ==
    [][(/\ Executes({"DELETE"})
        /\ result'.kind = "ok"
        /\ result'.stmt.table \in UserTables
        /\ PlainConjunction(result'.stmt.where))
        => LET t == result'.stmt.table IN
           rel'[t] = SelectSeq(rel[t], LAMBDA row : ~Satisfies(row, result'.stmt.where))]_vars

\* C16: a DELETE or SELECT on a registered table whose WHERE clause is not a
\* conjunction of column = integer-or-string literal fails with
\* "unrecognized expression"; no row is deleted and none is returned
C16_OtherWhereRejected ==
    [][(/\ Executes({"DELETE", "SELECT"})
        /\ build = "M5"
        /\ result'.stmt.table \in TableNamesIn(tables)
        /\ ~PlainConjunction(result'.stmt.where))
        => /\ result'.kind = "error"
           /\ result'.msg = "unrecognized expression"
           /\ NothingChanged]_vars

\* C17: after a completed DELETE on t no index registered on t holds a handle
\* of a row the DELETE removed
C17_DeleteCleansIndices ==
    [][(Executes({"DELETE"}) /\ result'.kind = "ok")
        => LET t == result'.stmt.table IN
           \A k \in IndexKeys :
               (k[1] = t /\ k[2] \in GetIndexNames(rel, t)) => idx'[k].stale = idx[k].stale]_vars

\* C18: SHOW COLUMNS FROM t returns exactly the _columns rows of table_name t,
\* and SHOW COLUMNS without a table returns exactly all rows of _columns
C18_ShowColumnsRows ==
    result.stmt.type = "SHOW COLUMNS" =>
        /\ result.kind = "ok"
        /\ result.rows =
             IF result.stmt.table = "" THEN columns
             ELSE SelectSeq(columns, LAMBDA row : row.table_name.s = result.stmt.table)

\* what result.fault names when a physical create, drop or insert failed
StorageFailures ==
    {"tables.insert", "columns.insert", "create", "drop", "indices.insert",
     "index.create", "index.drop", "insert", "index.insert", "no storage",
     "incomplete row"}

\* C19: a statement during which a physical create, drop or insert failed
\* reaches the caller of execute as an error, never as a normal QueryResult
C19_StorageFailureIsError ==
    [][(steps' = steps + 1 /\ result'.fault \in StorageFailures)
        => result'.kind = "error"]_vars

\* C20: CREATE TABLE naming _tables, _columns or _indices fails, adds no row
\* to _tables or _columns and creates no physical storage
C20_CreateSystemTableRejected ==
    [][(Executes({"CREATE TABLE"}) /\ result'.stmt.table \in SchemaTables)
        => /\ result'.kind = "error" \/ result'.msg = "Failed to create table"
           /\ SameRows(tables', tables)
           /\ SameRows(columns', columns)
           /\ storage' = storage]_vars

\* C21: every row stored in a user table has exactly one value for each
\* declared column, an integer under the INT column and a text under the TEXT
\* column
C21_StoredRowsMatchSchema ==
    \A t \in UserTables : \A h \in 1..Len(rel[t]) :
        /\ DOMAIN rel[t][h] = {ValidColumns[i].name : i \in 1..Len(ValidColumns)}
        /\ \A i \in 1..Len(ValidColumns) :
                rel[t][h][ValidColumns[i].name].tag = ValidColumns[i].type

C23_DropTableDropsIndices ==
    [][(Executes({"DROP TABLE"}) /\ result'.kind = "ok")
        => \A k \in IndexKeys : k[1] = result'.stmt.table => ~idx'[k].exists]_vars

\* the relations after each step of DROP TABLE t in the running executor
StepsOfDrop(t) == IF build = "M5" THEN DropTableSteps(rel, t) ELSE DropSteps(rel, t)

\* in relations r every _columns or _indices row of t has a _tables row of t
RowOfTableKept(r, t) ==
    t \in TableNamesIn(r[ColumnsName]) \cup TableNamesIn(r[IndicesName])
        => t \in TableNamesIn(r[TablesName])

\* C24: within DROP TABLE t the _indices rows of t go first, then the _columns
\* rows, then the storage, and the _tables row last: after every step, when a
\* _columns or _indices row of t exists the _tables row of t exists
C24_DropTableOrder ==
    \A t \in UserTables :
        Registered(rel, t) =>
            LET s == StepsOfDrop(t) IN
            /\ \A i \in 1..Len(s) : RowOfTableKept(s[i], t)
            /\ \A i \in 1..(Len(s) - 1) : s[i][TablesName] = rel[TablesName]
            /\ s[Len(s)][t] = <<>>
            /\ build = "M5" =>
                    /\ s[1][ColumnsName] = rel[ColumnsName]
                    /\ s[2][t] = rel[t]

\* a DROP TABLE of a table with _columns and _indices rows has run to its end
C24_Witness ==
    /\ result.stmt.type = "DROP TABLE"
    /\ result.kind = "ok"
    /\ result.stmt.table \in UserTables
    /\ idx[<<result.stmt.table, "ix">>].exists
    /\ result.stmt.table \notin TableNamesIn(tables)

\* the handles of the _indices rows of the index the statement names
GroupOf(stmt) == Select(indices, WhereIndex(stmt.table, stmt.index))

\* the statement of C25 as the specification words it: whenever _indices has
\* rows of (t, ix), DROP INDEX ix ON t removes exactly those rows
C25_DropIndexAlwaysRemoves ==
    [][Executes({"DROP INDEX"})
        => IF GroupOf(result'.stmt) # {}
           THEN indices' = Del(indices, GroupOf(result'.stmt))
           ELSE result'.kind = "error" /\ indices' = indices]_vars

\* C25: DROP INDEX ix ON t, when _indices has rows of (t, ix) and the physical
\* drop of the index does not fail, removes exactly those rows and leaves the
\* rows of every other group; when the physical drop fails, or _indices has no
\* row of (t, ix), it fails and _indices is unchanged
C25_DropIndexFrame ==
    [][Executes({"DROP INDEX"})
        => LET group == GroupOf(result'.stmt) IN
           /\ result'.kind \in {"ok", "error"}
           /\ result'.kind = "ok" <=> (group # {} /\ result'.fault # "index.drop")
           /\ result'.kind = "ok" => indices' = Del(indices, group)
           /\ result'.kind = "error" => indices' = indices]_vars

\* DROP INDEX removed the rows of an index and left the rows of another one
C25_Witness ==
    /\ result.stmt.type = "DROP INDEX"
    /\ result.kind = "ok"
    /\ indices # <<>>

\* C26: a successful INSERT INTO t stores exactly one new row in t and puts its
\* handle into every index _indices registers for t and into no other index;
\* the row is stored before the index inserts, so an INSERT that fails in an
\* index insert has stored it
C26_InsertReachesIndices ==
    [][(Executes({"INSERT"}) /\ build = "M5") =>
        LET t == result'.stmt.table
            handle == Len(rel[t]) + 1
        IN
        /\ result'.kind = "ok" =>
                /\ Len(rel'[t]) = handle
                /\ SubSeq(rel'[t], 1, Len(rel[t])) = rel[t]
                /\ \A n \in RelNames \ {t} : rel'[n] = rel[n]
                /\ \A k \in IndexKeys :
                        idx'[k] = IF k[1] = t /\ k[2] \in GetIndexNames(rel, t)
                                  THEN [idx[k] EXCEPT !.live = @ \cup {handle}]
                                  ELSE idx[k]
        /\ result'.fault = "index.insert" => Len(rel'[t]) = handle]_vars

\* an INSERT put the handle of its row into two indices of the table
C26_Witness ==
    /\ result.stmt.type = "INSERT"
    /\ result.kind = "ok"
    /\ result.stmt.table \in UserTables
    /\ \A ix \in IndexNames : 1 \in idx[<<result.stmt.table, ix>>].live

\* C27: _tables holds at most one row per table name and _columns no
\* duplicate row
C27_NoDuplicateTableRows ==
    /\ \A h, g \in 1..Len(tables) : tables[h] = tables[g] => h = g
    /\ \A h, g \in 1..Len(columns) : columns[h] = columns[g] => h = g

\* C28: a CREATE INDEX that fails leaves every _indices row that existed
\* before the statement and every physical index that existed before it
C28_FailedCreateIndexKeepsOthers ==
    [][(Executes({"CREATE INDEX"}) /\ result'.kind = "error")
        => /\ \A h \in 1..Len(indices) : Copies(indices', indices[h]) >= Copies(indices, indices[h])
           /\ \A k \in IndexKeys : idx[k].exists => idx'[k].exists]_vars

====
